---- MODULE Spec2Model ----
(***************************************************************************)
(* Model of the network-calls-stats examples: the Telegraf line encoder,   *)
(* the UDP stats emitter, the profiler context manager / profile           *)
(* decorator, the aiohttp trace observers and the requests-based           *)
(* get_response_text.                                                      *)
(*                                                                         *)
(* Python values are records tagged with their type.  A str is a sequence  *)
(* of one-character strings, so that str.replace and f-string formatting   *)
(* are computed character by character.                                    *)
(***************************************************************************)
EXTENDS Integers, Sequences, FiniteSets, TLC

VARIABLES
    now,        \* the clock (loop.time() / time.perf_counter()), in ticks
    ctx,        \* ctx[c]: attributes of trace_config_ctx of request c
    started,    \* started[c][p]: clock at which the start observer of p last ran on c
    last,       \* what the most recent observer invocation did
    unclosed,   \* sockets opened by send_stats and not closed by it
    prof,       \* prof[i]: one invocation of a profile-wrapped unit of work
    req,        \* the current get_response_text call of example-0
    enc_in,     \* arguments of a format_measurement_influxline call
    enc_out     \* the line it returned (<<>> before the call)

vars == <<now, ctx, started, last, unclosed, prof, req, enc_in, enc_out>>

---------------------------------------------------------------------------
(* Bounds of the model *)

MaxLen == 2         \* longest metric name / string value drawn as encoder input
MaxTags == 2        \* most tags in a drawn tag mapping
MaxUnclosed == 1    \* cap on the count of sockets send_stats left unclosed
MaxTime == 2        \* the clock stops advancing at this many ticks
TicksPerMs == 2     \* clock resolution: ticks in one millisecond
MaxMarks == 2       \* most start timestamps held at once over all contexts

---------------------------------------------------------------------------
(* Python values *)

PyNone == [t |-> "None"]
PyStr(s) == [t |-> "str", s |-> s]
PyInt(n) == [t |-> "int", n |-> n]

Reserved == {":", "_", "|"}

\* The characters input strings are drawn from: the reserved ones and a plain one.
Chars == Reserved \cup {"a"}

RECURSIVE SeqsUpTo(_, _)
SeqsUpTo(S, n) ==
    IF n = 0 THEN {<<>>}
    ELSE LET shorter == SeqsUpTo(S, n - 1)
         IN  shorter \cup {Append(s, c) : s \in shorter, c \in S}

\* str.replace(old, new) for one-character old and new
ReplaceChar(s, old, new) ==
    [i \in 1..Len(s) |-> IF s[i] = old THEN new ELSE s[i]]

\* A mutation of the escaping: the '|' replacement is missing.
prepare_str_for_telegraf_NoPipe(value) ==
    IF value.t # "str" THEN value
    ELSE PyStr(ReplaceChar(ReplaceChar(value.s, ":", "-"), "_", "-"))

prepare_str_for_telegraf(value) ==
    IF value.t # "str" THEN value
    ELSE PyStr(ReplaceChar(ReplaceChar(ReplaceChar(value.s, ":", "-"),
                                       "_", "-"), "|", "-"))

Digit(d) == <<"0", "1", "2", "3", "4", "5", "6", "7", "8", "9">>[d + 1]

RECURSIVE NatToStr(_)
NatToStr(n) ==
    IF n < 10 THEN <<Digit(n)>> ELSE NatToStr(n \div 10) \o <<Digit(n % 10)>>

\* str(int)
IntToStr(n) == IF n < 0 THEN <<"-">> \o NatToStr(-n) ELSE NatToStr(n)

\* f'{value}'
Format(value) ==
    CASE value.t = "str" -> value.s
      [] value.t = "int" -> IntToStr(value.n)
      [] OTHER -> <<"N", "o", "n", "e">>

\* A dict is the sequence of its items <<key, value>> in insertion order.
DictKeys(d) == {d[i][1] : i \in 1..Len(d)}

\* d[k] = v: a new key is appended, an existing key keeps its position
DictSet(d, k, v) ==
    IF \E i \in 1..Len(d) : d[i][1] = k
    THEN [i \in 1..Len(d) |-> IF d[i][1] = k THEN <<k, v>> ELSE d[i]]
    ELSE Append(d, <<k, v>>)

\* {prepare_str_for_telegraf(k): prepare_str_for_telegraf(v) for k, v in tags.items()}
RECURSIVE EscapeTags(_)
EscapeTags(d) ==
    IF d = <<>> THEN <<>>
    ELSE LET n == Len(d)
         IN  DictSet(EscapeTags(SubSeq(d, 1, n - 1)),
                     prepare_str_for_telegraf(d[n][1]),
                     prepare_str_for_telegraf(d[n][2]))

\* ','.join(f'{tag_key}={tag_value}' ...)
RECURSIVE JoinTags(_)
JoinTags(d) ==
    IF d = <<>> THEN <<>>
    ELSE LET item == Format(d[1][1]) \o <<"=">> \o Format(d[1][2])
         IN  IF Len(d) = 1 THEN item ELSE item \o <<",">> \o JoinTags(Tail(d))

\* `if tags:` -- None and the empty dict are falsy
Truthy(tags) == tags.t = "dict" /\ tags.items # <<>>

PyDict(items) == [t |-> "dict", items |-> items]

\* A mutation of the encoder: the tag segment is written even for no tags.
format_measurement_influxline_AlwaysComma(metric_name, metric_value, tags) ==
    LET items == IF tags.t = "dict" THEN EscapeTags(tags.items) ELSE <<>>
    IN  Format(prepare_str_for_telegraf(metric_name)) \o <<",">> \o JoinTags(items)
          \o <<" ", "v", "a", "l", "u", "e", "=">>
          \o Format(prepare_str_for_telegraf(metric_value)) \o <<"\n">>

format_measurement_influxline(metric_name, metric_value, tags) ==
    LET tags_str == IF Truthy(tags)
                    THEN <<",">> \o JoinTags(EscapeTags(tags.items))
                    ELSE <<>>
    IN  Format(prepare_str_for_telegraf(metric_name)) \o tags_str
          \o <<" ", "v", "a", "l", "u", "e", "=">>
          \o Format(prepare_str_for_telegraf(metric_value)) \o <<"\n">>

---------------------------------------------------------------------------
(* Stats emitter *)

\* The ways the transport can behave during one send_stats call.
NetOutcomes == {"ok", "socket_error", "sendto_error"}

\* A mutation of the emitter: the socket error is not caught.
send_stats_Propagates(metric_name, metric_value, tags, net) ==
    [name |-> metric_name, value |-> metric_value, tags |-> tags,
     sendto |-> net # "socket_error",
     sent |-> net = "ok",
     printed |-> IF net = "ok" THEN "Reported stats" ELSE "",
     raised |-> net # "ok",
     leaked |-> IF net = "sendto_error" THEN 1 ELSE 0]

\* send_stats(metric_name, metric_value, tags): what one call does when the
\* transport behaves as `net`.  socket.socket() runs first; sendto is called
\* with the formatted line; close() is reached only after a successful
\* sendto; socket.error is caught and printed.
send_stats(metric_name, metric_value, tags, net) ==
    [name |-> metric_name, value |-> metric_value, tags |-> tags,
     sendto |-> net # "socket_error",
     sent |-> net = "ok",
     printed |-> IF net = "ok" THEN "Reported stats" ELSE "Got error",
     raised |-> FALSE,
     leaked |-> IF net = "sendto_error" THEN 1 ELSE 0]

\* The datagram a send_stats call handed to sendto (<<>> if sendto was not reached).
Datagram(r) ==
    IF r.sendto THEN format_measurement_influxline(r.name, r.value, r.tags)
    ELSE <<>>

\* The transport outcomes a call can have in the current state (the count of
\* unclosed sockets is capped).
NetAfter(k) == {n \in NetOutcomes : n = "sendto_error" => unclosed + k < MaxUnclosed}
NetNow == NetAfter(0)

---------------------------------------------------------------------------
(* Encoder inputs *)

Strs(n) == {PyStr(s) : s \in SeqsUpTo(Chars, n)}

TagKeys == {PyStr(<<"a">>), PyStr(<<"a", "_", "b">>), PyStr(<<"a", ":", "b">>)}
TagVals == {PyStr(<<"a", "|", "b">>), PyStr(<<"_">>), PyInt(3)}
Values == {PyInt(n) : n \in {-12, 0, 7, 42}} \cup Strs(1)

RECURSIVE Dicts(_)
Dicts(n) ==
    IF n = 0 THEN {<<>>}
    ELSE LET smaller == Dicts(n - 1)
         IN  smaller \cup
             {Append(d, <<k, v>>) : d \in {x \in smaller : Len(x) = n - 1},
                                    k \in TagKeys, v \in TagVals}

TagMaps == {PyNone} \cup {PyDict(d) : d \in {x \in Dicts(MaxTags) :
                                              Cardinality(DictKeys(x)) = Len(x)}}

cpu_load == <<"c", "p", "u", "_", "l", "o", "a", "d">>
req_time == <<"r", "e", "q", ":", "t", "i", "m", "e">>
host_name == <<"h", "o", "s", "t", "_", "n", "a", "m", "e">>

\* The two calls the specification gives as examples.
ExampleInputs ==
    {[name |-> PyStr(cpu_load), value |-> PyInt(42), tags |-> PyDict(<<>>)],
     [name |-> PyStr(req_time), value |-> PyInt(10),
      tags |-> PyDict(<<<<PyStr(host_name), PyStr(<<"a", "|", "b">>)>>>>)]}

EncInputs == [name : Strs(MaxLen), value : Values, tags : TagMaps] \cup ExampleInputs

EncIdle == enc_in = [name |-> PyStr(<<>>), value |-> PyInt(0), tags |-> PyNone]
           /\ enc_out = <<>>

---------------------------------------------------------------------------
(* Idle values of the other components *)

NoCall == [op |-> "none"]

\* An attribute or local that is not set yet, and one holding clock value t.
Missing == [has |-> FALSE]
At(t) == [has |-> TRUE, t |-> t]

HooksIdle == ctx = <<>> /\ started = <<>> /\ last = NoCall
ProfIdle == prof = NoCall
NoValue == [kind |-> "none"]
Returned(v) == [kind |-> "returned", value |-> v]
RaisedError(e) == [kind |-> "raised", error |-> e]

IdleReq == [pc |-> "idle", host |-> PyNone, start_time |-> Missing,
            failed |-> NoValue, calls |-> <<>>, result |-> NoValue]
ReqIdle == req = IdleReq

---------------------------------------------------------------------------
(* The encoder called on drawn inputs *)

\* format_measurement_influxline(name, value, tags)
FormatCall ==
    /\ enc_out = <<>>
    /\ enc_out' = format_measurement_influxline(enc_in.name, enc_in.value, enc_in.tags)
    /\ UNCHANGED <<now, ctx, started, last, unclosed, prof, req, enc_in>>

\* send_stats(name, value): the tags parameter takes its default, None
SendStatsNoTags ==
    /\ enc_out = <<>>
    /\ \E net \in NetNow :
         LET r == send_stats(enc_in.name, enc_in.value, PyNone, net)
         IN  /\ enc_in' = [enc_in EXCEPT !.tags = PyNone]
             /\ enc_out' = Datagram(r)
             /\ unclosed' = unclosed + r.leaked
    /\ UNCHANGED <<now, ctx, started, last, prof, req>>

InitEnc ==
    /\ now = 0 /\ unclosed = 0
    /\ HooksIdle /\ ProfIdle /\ ReqIdle
    /\ enc_in \in EncInputs
    /\ enc_out = <<>>

NextEnc == FormatCall \/ SendStatsNoTags

SpecEnc == InitEnc /\ [][NextEnc]_vars

---------------------------------------------------------------------------
(* String literals of the sources *)

aiohttp_request_exec_time ==
    <<"a", "i", "o", "h", "t", "t", "p", "_", "r", "e", "q", "u", "e", "s", "t", "_", "e", "x", "e", "c", "_", "t", "i", "m", "e">>

aiohttp_connection_queued_time ==
    <<"a", "i", "o", "h", "t", "t", "p", "_", "c", "o", "n", "n", "e", "c", "t", "i", "o", "n", "_", "q", "u", "e", "u", "e", "d", "_", "t", "i", "m", "e">>

aiohttp_connection_create_time ==
    <<"a", "i", "o", "h", "t", "t", "p", "_", "c", "o", "n", "n", "e", "c", "t", "i", "o", "n", "_", "c", "r", "e", "a", "t", "e", "_", "t", "i", "m", "e">>

aiohttp_dns_resolvehost_time ==
    <<"a", "i", "o", "h", "t", "t", "p", "_", "d", "n", "s", "_", "r", "e", "s", "o", "l", "v", "e", "h", "o", "s", "t", "_", "t", "i", "m", "e">>

aiohttp_request_redirect ==
    <<"a", "i", "o", "h", "t", "t", "p", "_", "r", "e", "q", "u", "e", "s", "t", "_", "r", "e", "d", "i", "r", "e", "c", "t">>

aiohttp_request_exception ==
    <<"a", "i", "o", "h", "t", "t", "p", "_", "r", "e", "q", "u", "e", "s", "t", "_", "e", "x", "c", "e", "p", "t", "i", "o", "n">>

aiohttp_response_chunk_received ==
    <<"a", "i", "o", "h", "t", "t", "p", "_", "r", "e", "s", "p", "o", "n", "s", "e", "_", "c", "h", "u", "n", "k", "_", "r", "e", "c", "e", "i", "v", "e", "d">>

aiohttp_connection_reuseconn ==
    <<"a", "i", "o", "h", "t", "t", "p", "_", "c", "o", "n", "n", "e", "c", "t", "i", "o", "n", "_", "r", "e", "u", "s", "e", "c", "o", "n", "n">>

aiohttp_dns_cache_hit ==
    <<"a", "i", "o", "h", "t", "t", "p", "_", "d", "n", "s", "_", "c", "a", "c", "h", "e", "_", "h", "i", "t">>

aiohttp_dns_cache_miss ==
    <<"a", "i", "o", "h", "t", "t", "p", "_", "d", "n", "s", "_", "c", "a", "c", "h", "e", "_", "m", "i", "s", "s">>

requests_request_exec_time ==
    <<"r", "e", "q", "u", "e", "s", "t", "s", "_", "r", "e", "q", "u", "e", "s", "t", "_", "e", "x", "e", "c", "_", "t", "i", "m", "e">>

requests_request_exception ==
    <<"r", "e", "q", "u", "e", "s", "t", "s", "_", "r", "e", "q", "u", "e", "s", "t", "_", "e", "x", "c", "e", "p", "t", "i", "o", "n">>

domain == <<"d", "o", "m", "a", "i", "n">>

exception_class == <<"e", "x", "c", "e", "p", "t", "i", "o", "n", "_", "c", "l", "a", "s", "s">>

www_python_org == <<"w", "w", "w", ".", "p", "y", "t", "h", "o", "n", ".", "o", "r", "g">>

www_mozilla_org == <<"w", "w", "w", ".", "m", "o", "z", "i", "l", "l", "a", ".", "o", "r", "g">>

exec_time_suffix == <<"_", "e", "x", "e", "c", "_", "t", "i", "m", "e">>

---------------------------------------------------------------------------
(* Clock and rounding *)

\* round(x) of Python 3 for x = num / den: to the nearest integer, ties to even
PyRound(num, den) ==
    LET q == num \div den
        r == num % den
    IN  IF 2 * r < den THEN q
        ELSE IF 2 * r > den THEN q + 1
        ELSE IF q % 2 = 0 THEN q ELSE q + 1

\* Time passes between any two steps of the program.
Tick ==
    /\ now < MaxTime
    /\ now' = now + 1
    /\ UNCHANGED <<ctx, started, last, unclosed, prof, req, enc_in, enc_out>>

---------------------------------------------------------------------------
(* aiohttp trace observers (example-3; example-1 has the request pair) *)

\* The two requests call_python_and_mozilla_using_aiohttp keeps in flight.
Contexts == {1, 2}

HostOf(c) == IF c = 1 THEN PyStr(www_python_org) ELSE PyStr(www_mozilla_org)

\* The attributes the start observers set on trace_config_ctx.
Attrs == {"request_start", "connection_queued_start",
          "connection_create_start", "dns_resolvehost_start"}

\* trace_config_ctx as aiohttp creates it for a request: no attribute set
FreshCtx == [a \in Attrs |-> Missing]

\* The params object aiohttp passes, by the attributes the observers look at:
\* request and response events carry url, DNS events carry host, connection
\* events carry neither.
UrlParams(c) == [url |-> [raw_host |-> HostOf(c)]]
HostParams(c) == [host |-> HostOf(c)]
BareParams == [method |-> "GET"]

HasAttr(params, a) == a \in DOMAIN params

\* Number of start timestamps currently held.
Marks == Cardinality({<<c, a>> \in Contexts \X Attrs : ctx[c][a].has})

CanMark(c, a) == ctx[c][a].has \/ Marks < MaxMarks

\* A mutation: a phase start stamps every phase of its context.
MarkStart_AllPhases(c, a) ==
    [ctx EXCEPT ![c] = [b \in Attrs |-> At(now)]]

\* A mutation: the timestamp is kept in state shared by all requests.
MarkStart_Shared(c, a) ==
    [d \in Contexts |-> [ctx[d] EXCEPT ![a] = At(now)]]

\* trace_config_ctx.<a> = asyncio.get_event_loop().time()
MarkStart(c, a) == [ctx EXCEPT ![c][a] = At(now)]

\* A mutation: a missing attribute reads as 0 instead of raising.
ReadStart_Default(c, a) == IF ctx[c][a].has THEN ctx[c][a] ELSE At(0)

\* trace_config_ctx.<a>: Missing stands for the AttributeError of the lookup
ReadStart(c, a) == ctx[c][a]

\* A mutation: the subtraction is the wrong way round.
compute_elapsed_and_send_stats_Reversed(start_time, metric_name, params, net) ==
    LET elapsed_time == PyRound(start_time - now, TicksPerMs)
        tags0 == <<>>
        tags1 == IF HasAttr(params, "host")
                 THEN DictSet(tags0, PyStr(domain), params.host) ELSE tags0
        tags2 == IF HasAttr(params, "url")
                 THEN DictSet(tags1, PyStr(domain), params.url.raw_host) ELSE tags1
    IN  send_stats(PyStr(metric_name), PyInt(elapsed_time), PyDict(tags2), net)

\* compute_elapsed_and_send_stats(start_time, metric_name, params) run at
\* clock `now`; ticks are seconds * 1000 * TicksPerMs.
compute_elapsed_and_send_stats(start_time, metric_name, params, net) ==
    LET elapsed_time == PyRound(now - start_time, TicksPerMs)
        tags0 == <<>>
        tags1 == IF HasAttr(params, "host")
                 THEN DictSet(tags0, PyStr(domain), params.host) ELSE tags0
        tags2 == IF HasAttr(params, "url")
                 THEN DictSet(tags1, PyStr(domain), params.url.raw_host) ELSE tags1
    IN  send_stats(PyStr(metric_name), PyInt(elapsed_time), PyDict(tags2), net)

\* What an observer invocation leaves behind: the observer, the context it
\* was given, the clock, the start the harness saw recorded for its phase,
\* the exception it raised and the send_stats calls it made.
Call(op, c, began, raised, calls) ==
    [op |-> op, c |-> c, at |-> now, began |-> began, raised |-> raised,
     calls |-> calls]

RaisedBy(r) == IF r.raised THEN "socket.error" ELSE "none"

\* A *_start observer: one attribute assignment, no emission.
StartObserver(op, c, a) ==
    /\ last = NoCall
    /\ CanMark(c, a)
    /\ ctx' = MarkStart(c, a)
    /\ started' = [started EXCEPT ![c][a] = At(now)]
    /\ last' = Call(op, c, Missing, "none", <<>>)
    /\ UNCHANGED <<now, unclosed, prof, req, enc_in, enc_out>>

\* A *_end observer: the attribute lookup is evaluated first, as an
\* argument of the call; if it raises nothing else happens.
EndObserver(op, c, a, metric_name, params) ==
    LET start_time == ReadStart(c, a)
    IN  /\ last = NoCall
        /\ IF ~start_time.has
           THEN /\ last' = Call(op, c, started[c][a], "AttributeError", <<>>)
                /\ UNCHANGED <<now, ctx, started, unclosed, prof, req, enc_in, enc_out>>
           ELSE \E net \in NetNow :
                  LET r == compute_elapsed_and_send_stats(start_time.t, metric_name,
                                                          params, net)
                  IN  /\ last' = Call(op, c, started[c][a], RaisedBy(r), <<r>>)
                      /\ unclosed' = unclosed + r.leaked
                      /\ UNCHANGED <<now, ctx, started, prof, req, enc_in, enc_out>>

\* A single-shot observer: one send_stats call.
EventObserver(op, c, metric_name, metric_value, tags) ==
    /\ last = NoCall
    /\ \E net \in NetNow :
         LET r == send_stats(PyStr(metric_name), metric_value, tags, net)
         IN  /\ last' = Call(op, c, Missing, RaisedBy(r), <<r>>)
             /\ unclosed' = unclosed + r.leaked
             /\ UNCHANGED <<now, ctx, started, prof, req, enc_in, enc_out>>

on_request_start(c) == StartObserver("on_request_start", c, "request_start")

on_request_end(c) ==
    EndObserver("on_request_end", c, "request_start",
                aiohttp_request_exec_time, UrlParams(c))

on_connection_queued_start(c) ==
    StartObserver("on_connection_queued_start", c, "connection_queued_start")

on_connection_queued_end(c) ==
    EndObserver("on_connection_queued_end", c, "connection_queued_start",
                aiohttp_connection_queued_time, BareParams)

on_connection_create_start(c) ==
    StartObserver("on_connection_create_start", c, "connection_create_start")

on_connection_create_end(c) ==
    EndObserver("on_connection_create_end", c, "connection_create_start",
                aiohttp_connection_create_time, BareParams)

on_dns_resolvehost_start(c) ==
    StartObserver("on_dns_resolvehost_start", c, "dns_resolvehost_start")

on_dns_resolvehost_end(c) ==
    EndObserver("on_dns_resolvehost_end", c, "dns_resolvehost_start",
                aiohttp_dns_resolvehost_time, HostParams(c))

on_request_redirect(c) ==
    EventObserver("on_request_redirect", c, aiohttp_request_redirect, PyInt(1),
                  PyDict(<<<<PyStr(domain), UrlParams(c).url.raw_host>>>>))

\* The class names of the exceptions aiohttp may hand to the observer.
ExceptionClasses ==
    {<<"C", "l", "i", "e", "n", "t", "E", "r", "r", "o", "r">>,
     <<"T", "i", "m", "e", "o", "u", "t", "E", "r", "r", "o", "r">>}

on_request_exception(c, cls) ==
    EventObserver("on_request_exception", c, aiohttp_request_exception, PyInt(1),
                  PyDict(<<<<PyStr(domain), UrlParams(c).url.raw_host>>,
                           <<PyStr(exception_class), PyStr(cls)>>>>))

\* Byte lengths of the chunks delivered.
ChunkLens == {0, 5}

on_response_chunk_received(c, len) ==
    EventObserver("on_response_chunk_received", c, aiohttp_response_chunk_received,
                  PyInt(len),
                  PyDict(<<<<PyStr(domain), UrlParams(c).url.raw_host>>>>))

on_connection_reuseconn(c) ==
    EventObserver("on_connection_reuseconn", c, aiohttp_connection_reuseconn,
                  PyInt(1), PyNone)

on_dns_cache_hit(c) ==
    EventObserver("on_dns_cache_hit", c, aiohttp_dns_cache_hit, PyInt(1),
                  PyDict(<<<<PyStr(domain), HostParams(c).host>>>>))

on_dns_cache_miss(c) ==
    EventObserver("on_dns_cache_miss", c, aiohttp_dns_cache_miss, PyInt(1),
                  PyDict(<<<<PyStr(domain), HostParams(c).host>>>>))

\* The awaited observer has returned (or raised) and the client carries on.
ObserverReturns ==
    /\ last # NoCall
    /\ last' = NoCall
    /\ UNCHANGED <<now, ctx, started, unclosed, prof, req, enc_in, enc_out>>

\* session.get(url): aiohttp gives every request a trace_config_ctx of its own.
NewRequest(c) ==
    /\ last = NoCall
    /\ ctx' = [ctx EXCEPT ![c] = FreshCtx]
    /\ started' = [started EXCEPT ![c] = FreshCtx]
    /\ UNCHANGED <<now, last, unclosed, prof, req, enc_in, enc_out>>

\* The clock seen between observer invocations.
HooksTick == last = NoCall /\ Tick

HooksInit ==
    /\ ctx = [c \in Contexts |-> FreshCtx]
    /\ started = [c \in Contexts |-> FreshCtx]
    /\ last = NoCall

Init ==
    /\ now = 0 /\ unclosed = 0
    /\ HooksInit /\ ProfIdle /\ ReqIdle /\ EncIdle

\* The signals of aiohttp's TraceConfig.
Signals ==
    {"on_request_start", "on_request_chunk_sent", "on_response_chunk_received",
     "on_request_end", "on_request_exception", "on_request_redirect",
     "on_connection_queued_start", "on_connection_queued_end",
     "on_connection_create_start", "on_connection_create_end",
     "on_connection_reuseconn", "on_dns_resolvehost_start",
     "on_dns_resolvehost_end", "on_dns_cache_hit", "on_dns_cache_miss"}

\* super().__init__(): every signal starts with no observer.
TraceConfig_init == [sig \in Signals |-> <<>>]

\* self.<sig>.append(<observer>), one call after the other
RECURSIVE Appended(_, _)
Appended(reg, appends) ==
    IF appends = <<>> THEN reg
    ELSE Appended([reg EXCEPT ![appends[1][1]] = Append(@, appends[1][2])],
                  Tail(appends))

\* A mutation: on_dns_cache_miss is appended to the on_dns_cache_hit signal.
Profiler_init_Misplaced ==
    Appended(TraceConfig_init, <<
      <<"on_request_start", "on_request_start">>,
      <<"on_request_end", "on_request_end">>,
      <<"on_request_redirect", "on_request_redirect">>,
      <<"on_request_exception", "on_request_exception">>,
      <<"on_connection_queued_start", "on_connection_queued_start">>,
      <<"on_connection_queued_end", "on_connection_queued_end">>,
      <<"on_connection_create_start", "on_connection_create_start">>,
      <<"on_connection_create_end", "on_connection_create_end">>,
      <<"on_dns_resolvehost_start", "on_dns_resolvehost_start">>,
      <<"on_dns_resolvehost_end", "on_dns_resolvehost_end">>,
      <<"on_response_chunk_received", "on_response_chunk_received">>,
      <<"on_connection_reuseconn", "on_connection_reuseconn">>,
      <<"on_dns_cache_hit", "on_dns_cache_hit">>,
      <<"on_dns_cache_hit", "on_dns_cache_miss">> >>)

\* Profiler.__init__: the observers of each signal, in registration order.
Profiler_init ==
    Appended(TraceConfig_init, <<
      <<"on_request_start", "on_request_start">>,
      <<"on_request_end", "on_request_end">>,
      <<"on_request_redirect", "on_request_redirect">>,
      <<"on_request_exception", "on_request_exception">>,
      <<"on_connection_queued_start", "on_connection_queued_start">>,
      <<"on_connection_queued_end", "on_connection_queued_end">>,
      <<"on_connection_create_start", "on_connection_create_start">>,
      <<"on_connection_create_end", "on_connection_create_end">>,
      <<"on_dns_resolvehost_start", "on_dns_resolvehost_start">>,
      <<"on_dns_resolvehost_end", "on_dns_resolvehost_end">>,
      <<"on_response_chunk_received", "on_response_chunk_received">>,
      <<"on_connection_reuseconn", "on_connection_reuseconn">>,
      <<"on_dns_cache_hit", "on_dns_cache_hit">>,
      <<"on_dns_cache_miss", "on_dns_cache_miss">> >>)

\* The observer functions by name.
Observer(name, c) ==
    \/ name = "on_request_start" /\ on_request_start(c)
    \/ name = "on_request_end" /\ on_request_end(c)
    \/ name = "on_request_redirect" /\ on_request_redirect(c)
    \/ name = "on_request_exception" /\ \E cls \in ExceptionClasses : on_request_exception(c, cls)
    \/ name = "on_connection_queued_start" /\ on_connection_queued_start(c)
    \/ name = "on_connection_queued_end" /\ on_connection_queued_end(c)
    \/ name = "on_connection_create_start" /\ on_connection_create_start(c)
    \/ name = "on_connection_create_end" /\ on_connection_create_end(c)
    \/ name = "on_dns_resolvehost_start" /\ on_dns_resolvehost_start(c)
    \/ name = "on_dns_resolvehost_end" /\ on_dns_resolvehost_end(c)
    \/ name = "on_response_chunk_received" /\ \E len \in ChunkLens : on_response_chunk_received(c, len)
    \/ name = "on_connection_reuseconn" /\ on_connection_reuseconn(c)
    \/ name = "on_dns_cache_hit" /\ on_dns_cache_hit(c)
    \/ name = "on_dns_cache_miss" /\ on_dns_cache_miss(c)

\* The client reaches a lifecycle point of request c and sends the signal to
\* the observers registered for it.
Send(sig, c) ==
    \E k \in 1..Len(Profiler_init[sig]) : Observer(Profiler_init[sig][k], c)

\* The client may reach any lifecycle point on any request at any time.
Next ==
    \/ HooksTick
    \/ ObserverReturns
    \/ \E c \in Contexts : NewRequest(c)
    \/ \E sig \in Signals, c \in Contexts : Send(sig, c)

Spec == Init /\ [][Next]_vars

---------------------------------------------------------------------------
(* profiler context manager and profile decorator *)

\* Units of work the decorator is applied to: a blocking one and a coroutine
\* function, by their __name__.
Funcs == {[name |-> <<"f">>, is_async |-> FALSE],
          [name |-> <<"g">>, is_async |-> TRUE]}

\* Invocations of wrapped units that may be in progress together.
Invocations == {1, 2}

my_exec_time == <<"m", "y", "_", "e", "x", "e", "c", "_", "t", "i", "m", "e">>

\* What invocation i of unit f produces when it completes normally, and the
\* exception it raises when it fails.
ResultOf(f, i) == [unit |-> f.name, call |-> i]
ErrorOf(f, i) == [cls |-> "ValueError", unit |-> f.name, call |-> i]

IdleInvocation ==
    [pc |-> "idle", f |-> NoCall, metric_name |-> PyNone, start |-> Missing,
     f_start |-> Missing, f_end |-> Missing, end |-> Missing,
     outcome |-> NoValue, result |-> NoValue, calls |-> <<>>]

\* `not metric_name`
Falsy(v) == v = PyNone \/ v = PyStr(<<>>)

\* A blocking unit holds the only thread from its call to its return.
BlockedBy(i) ==
    \E j \in Invocations \ {i} :
        /\ prof.inv[j].pc \in {"entered", "running", "finished"}
        /\ ~prof.inv[j].f.is_async

\* actual_decorator(f): the nonlocal metric_name of the enclosing profile()
\* call is set from f.__name__ if it is still empty.
actual_decorator(f) ==
    /\ f \notin prof.units
    /\ ~\E i \in Invocations : BlockedBy(i)
    /\ prof' = [prof EXCEPT
                  !.cell = IF Falsy(prof.cell)
                           THEN PyStr(f.name \o exec_time_suffix)
                           ELSE prof.cell,
                  !.units = prof.units \cup {f}]
    /\ UNCHANGED <<now, ctx, started, last, unclosed, req, enc_in, enc_out>>

\* A mutation: the milliseconds conversion is forgotten (seconds are rounded).
profiler_elapsed_Seconds(start, end) == PyRound(end - start, 1000 * TicksPerMs)

\* elapsed_time = int(round((end - start) * 1000))
profiler_elapsed(start, end) == PyRound(end - start, TicksPerMs)

\* decorated_function / decorated_function_async entered: profiler(metric_name)
\* is created with the current value of the closure's metric_name and runs to
\* its yield, recording start.
profiler_enter(i, f) ==
    /\ f \in prof.units
    /\ prof.inv[i].pc = "idle"
    /\ ~BlockedBy(i)
    /\ prof' = [prof EXCEPT !.inv[i] =
                  [IdleInvocation EXCEPT !.pc = "entered", !.f = f,
                                         !.metric_name = prof.cell,
                                         !.start = At(now)]]
    /\ UNCHANGED <<now, ctx, started, last, unclosed, req, enc_in, enc_out>>

\* The body of the with statement calls f (and, for a coroutine, awaits it).
unit_begins(i) ==
    /\ prof.inv[i].pc = "entered"
    /\ prof' = [prof EXCEPT !.inv[i].pc = "running", !.inv[i].f_start = At(now)]
    /\ UNCHANGED <<now, ctx, started, last, unclosed, req, enc_in, enc_out>>

\* f returns its result ...
unit_returns(i) ==
    /\ prof.inv[i].pc = "running"
    /\ ~BlockedBy(i)
    /\ prof' = [prof EXCEPT !.inv[i].pc = "finished", !.inv[i].f_end = At(now),
                            !.inv[i].outcome = Returned(ResultOf(prof.inv[i].f, i))]
    /\ UNCHANGED <<now, ctx, started, last, unclosed, req, enc_in, enc_out>>

\* ... or raises.
unit_raises(i) ==
    /\ prof.inv[i].pc = "running"
    /\ ~BlockedBy(i)
    /\ prof' = [prof EXCEPT !.inv[i].pc = "finished", !.inv[i].f_end = At(now),
                            !.inv[i].outcome = RaisedError(ErrorOf(prof.inv[i].f, i))]
    /\ UNCHANGED <<now, ctx, started, last, unclosed, req, enc_in, enc_out>>

\* The with statement is left.  After a normal completion the generator is
\* resumed after its yield: it reads the clock, computes elapsed_time and
\* calls send_stats, and the wrapper returns f's result.  After an exception
\* the generator is resumed by throwing the exception at its yield, which is
\* not inside a try: the rest of the generator does not run and the exception
\* leaves the with statement.
profiler_exit(i) ==
    LET inv == prof.inv[i]
    IN  /\ inv.pc = "finished"
        /\ ~BlockedBy(i)
        /\ IF inv.outcome.kind = "returned"
           THEN \E net \in NetNow :
                  LET r == send_stats(inv.metric_name,
                                      PyInt(profiler_elapsed(inv.start.t, now)),
                                      PyDict(<<>>), net)
                  IN  /\ prof' = [prof EXCEPT
                                    !.inv[i].pc = "returned",
                                    !.inv[i].end = At(now),
                                    !.inv[i].calls = Append(inv.calls, r),
                                    !.inv[i].result = IF r.raised
                                                      THEN RaisedError("socket.error")
                                                      ELSE inv.outcome]
                      /\ unclosed' = unclosed + r.leaked
           ELSE /\ prof' = [prof EXCEPT !.inv[i].pc = "raised",
                                        !.inv[i].result = inv.outcome]
                /\ UNCHANGED unclosed
        /\ UNCHANGED <<now, ctx, started, last, req, enc_in, enc_out>>

\* The caller has the result (or the exception); the slot is free for the
\* next invocation.
invocation_over(i) ==
    /\ prof.inv[i].pc \in {"returned", "raised"}
    /\ prof' = [prof EXCEPT !.inv[i] = IdleInvocation]
    /\ UNCHANGED <<now, ctx, started, last, unclosed, req, enc_in, enc_out>>

\* profile(metric_name=...) or profile(): the closure's metric_name
InitProf ==
    /\ now = 0 /\ unclosed = 0
    /\ HooksIdle /\ ReqIdle /\ EncIdle
    /\ \E m \in {PyNone, PyStr(my_exec_time)} :
         prof = [cell |-> m, units |-> {}, inv |-> [i \in Invocations |-> IdleInvocation]]

NextProf ==
    \/ Tick
    \/ \E f \in Funcs : actual_decorator(f)
    \/ \E i \in Invocations, f \in Funcs : profiler_enter(i, f)
    \/ \E i \in Invocations : unit_begins(i)
    \/ \E i \in Invocations : unit_returns(i)
    \/ \E i \in Invocations : unit_raises(i)
    \/ \E i \in Invocations : profiler_exit(i)
    \/ \E i \in Invocations : invocation_over(i)

SpecProf == InitProf /\ [][NextProf]_vars

---------------------------------------------------------------------------
(* get_response_text of example-0 (requests) *)

\* URL(url).raw_host of the two URLs fetched.
Hosts == {PyStr(www_python_org), PyStr(www_mozilla_org)}

\* RequestException subclasses requests.get itself raises (no response).
TransportErrors ==
    {<<"C", "o", "n", "n", "e", "c", "t", "i", "o", "n", "E", "r", "r", "o", "r">>,
     <<"T", "i", "m", "e", "o", "u", "t">>}

HTTPError == <<"H", "T", "T", "P", "E", "r", "r", "o", "r">>

\* Status codes of the responses received.
Statuses == {200, 404}

\* f'Exception occured: {e}'
ExceptionText(e) == [text |-> "Exception occured: ", e |-> e]

\* The body of `except RequestException as e`
ExceptHandler(host, cls, net) ==
    send_stats(PyStr(requests_request_exception), PyInt(1),
               PyDict(<<<<PyStr(domain), host>>,
                        <<PyStr(exception_class), PyStr(cls)>>>>), net)

\* The `response` hook, called by requests with the response received
profile_request(host, start_time, net) ==
    send_stats(PyStr(requests_request_exec_time),
               PyInt(PyRound(now - start_time, TicksPerMs)),
               PyDict(<<<<PyStr(domain), host>>>>), net)

\* get_response_text(url) is called: start_time is read and requests.get blocks.
get_response_text_called(host) ==
    /\ req.pc \in {"idle", "done"}
    /\ req' = [IdleReq EXCEPT !.pc = "in_get", !.host = host, !.start_time = At(now)]
    /\ UNCHANGED <<now, ctx, started, last, unclosed, prof, enc_in, enc_out>>

\* requests.get raises: the handler emits the exception metric and the
\* function returns the text.
requests_get_raises(cls) ==
    /\ req.pc = "in_get"
    /\ \E net \in NetNow :
         LET e == [cls |-> cls, host |-> req.host]
             r == ExceptHandler(req.host, cls, net)
         IN  /\ req' = [req EXCEPT !.pc = "done", !.failed = RaisedError(e),
                                   !.calls = <<r>>,
                                   !.result = Returned(ExceptionText(e))]
             /\ unclosed' = unclosed + r.leaked
    /\ UNCHANGED <<now, ctx, started, last, prof, enc_in, enc_out>>

\* requests.get returns a response: the hook has emitted the request time;
\* raise_for_status raises HTTPError for a 4xx/5xx status, which the same
\* handler catches; otherwise the decoded content is returned.
requests_get_responds(status) ==
    /\ req.pc = "in_get"
    /\ \E net1 \in NetNow :
         LET h == profile_request(req.host, req.start_time.t, net1)
         IN  IF status >= 400
             THEN \E net2 \in NetAfter(h.leaked) :
                    LET e == [cls |-> HTTPError, host |-> req.host]
                        r == ExceptHandler(req.host, HTTPError, net2)
                    IN  /\ req' = [req EXCEPT !.pc = "done", !.failed = RaisedError(e),
                                              !.calls = <<h, r>>,
                                              !.result = Returned(ExceptionText(e))]
                        /\ unclosed' = unclosed + h.leaked + r.leaked
             ELSE /\ req' = [req EXCEPT !.pc = "done", !.calls = <<h>>,
                                        !.result = Returned([content |-> req.host])]
                  /\ unclosed' = unclosed + h.leaked
    /\ UNCHANGED <<now, ctx, started, last, prof, enc_in, enc_out>>

InitReq ==
    /\ now = 0 /\ unclosed = 0
    /\ HooksIdle /\ ProfIdle /\ ReqIdle /\ EncIdle

NextReq ==
    \/ Tick
    \/ \E host \in Hosts : get_response_text_called(host)
    \/ \E cls \in TransportErrors : requests_get_raises(cls)
    \/ \E status \in Statuses : requests_get_responds(status)

SpecReq == InitReq /\ [][NextReq]_vars

---------------------------------------------------------------------------
(* Properties of the trace observers, checked under Spec *)

EndOps == {"on_request_end", "on_connection_queued_end",
           "on_connection_create_end", "on_dns_resolvehost_end"}

\* The attribute each phase-end observer reads.
AttrOf(op) ==
    CASE op = "on_request_end" -> "request_start"
      [] op = "on_connection_queued_end" -> "connection_queued_start"
      [] op = "on_connection_create_end" -> "connection_create_start"
      [] op = "on_dns_resolvehost_end" -> "dns_resolvehost_start"

\* v whole milliseconds is d ticks to the nearest millisecond.
NearestMs(v, d) ==
    /\ 2 * TicksPerMs * v - 2 * d <= TicksPerMs
    /\ 2 * d - 2 * TicksPerMs * v <= TicksPerMs

\* A phase-end observer has just run on a context whose phase was started.
PairedEnd == last.op \in EndOps /\ last.began.has

\* C1: when the phase-start observer ran at clock s and the phase-end
\* observer runs at clock e >= s on the same context, the phase-end observer
\* emits exactly one metric, whose value is e - s in whole milliseconds and
\* is not negative.
C1_DurationIsEndMinusStart ==
    PairedEnd =>
        /\ last.at >= last.began.t
        /\ Len(last.calls) = 1
        /\ last.calls[1].value.t = "int"
        /\ NearestMs(last.calls[1].value.n, last.at - last.began.t)
        /\ last.calls[1].value.n >= 0

C1_Witness ==
    /\ PairedEnd
    /\ last.at > last.began.t
    /\ last.calls[1].value.n >= 1

\* C2: with several requests in flight and their observers interleaved in
\* any order, every context holds exactly the start timestamps its own start
\* observers recorded, and the duration a phase-end observer emits is
\* computed from the start recorded in the context it was given.
C2_OwnContextOnly ==
    /\ \A c \in Contexts, a \in Attrs : ctx[c][a] = started[c][a]
    /\ PairedEnd =>
         /\ Len(last.calls) = 1
         /\ last.calls[1].value = PyInt(PyRound(last.at - last.began.t, TicksPerMs))

\* The other request holds a different start for the same phase, from which
\* a different duration would have been computed.
C2_Witness ==
    /\ PairedEnd
    /\ \E d \in Contexts \ {last.c} :
         /\ started[d][AttrOf(last.op)].has
         /\ PyRound(last.at - started[d][AttrOf(last.op)].t, TicksPerMs)
              # last.calls[1].value.n

\* C3: a phase-end observer invoked on a context on which the matching
\* phase-start observer never ran raises the lookup error and emits nothing.
C3_EndWithoutStartRaises ==
    (last.op \in EndOps /\ ~last.began.has) =>
        /\ last.raised = "AttributeError"
        /\ last.calls = <<>>

C3_Witness ==
    /\ last.op \in EndOps
    /\ ~last.began.has
    /\ \A a \in Attrs : ~ctx[last.c][a].has

\* C6: send_stats never raises to its caller: when opening the socket or
\* sending fails, the failure is caught and logged and the observer that
\* called send_stats completes normally.
C6_TransportFailureSwallowed ==
    (last.op # "none" /\ last.calls # <<>> /\ ~last.calls[1].sent) =>
        /\ ~last.calls[1].raised
        /\ last.calls[1].printed = "Got error"
        /\ last.raised = "none"

C6_Witness ==
    /\ last.op \in EndOps
    /\ last.calls # <<>>
    /\ ~last.calls[1].sent
    /\ ~last.calls[1].sendto

---------------------------------------------------------------------------
(* Properties of the profiling wrapper, checked under SpecProf *)

\* C4: when the wrapped unit of work fails, the wrapper still emits its
\* duration metric for that invocation and re-raises the original error.
C4_FailureRecordedThenReraised ==
    \A i \in Invocations :
        prof.inv[i].pc = "raised" =>
            /\ Len(prof.inv[i].calls) = 1
            /\ prof.inv[i].result = prof.inv[i].outcome

\* The envelope of a normally completed invocation: start is recorded before
\* the original is invoked, one metric is emitted after the original has
\* completed, and the original's result is returned unchanged.
Envelope(i) ==
    LET inv == prof.inv[i]
    IN  /\ inv.start.t <= inv.f_start.t
        /\ inv.f_start.t <= inv.f_end.t
        /\ inv.f_end.t <= inv.end.t
        /\ Len(inv.calls) = 1
        /\ inv.calls[1].value.t = "int"
        /\ inv.calls[1].value.n >= 0
        /\ inv.result = Returned(ResultOf(inv.f, i))

\* C5 as stated: ... and the emitted duration is >= the time the original took.
C5_DurationAtLeastOriginal ==
    \A i \in Invocations :
        prof.inv[i].pc = "returned" =>
            /\ Envelope(i)
            /\ prof.inv[i].calls[1].value.n * TicksPerMs
                 >= prof.inv[i].f_end.t - prof.inv[i].f_start.t

\* C5 amended: for every invocation that completes normally the envelope
\* holds, the measured interval end - start covers the original's time, and
\* the emitted duration is that interval to the nearest whole millisecond:
\* not negative, and short of the original's time by at most half a
\* millisecond.
C5_DurationIsRoundedEnvelope ==
    \A i \in Invocations :
        prof.inv[i].pc = "returned" =>
            LET inv == prof.inv[i]
                v == inv.calls[1].value.n
            IN  /\ Envelope(i)
                /\ inv.end.t - inv.start.t >= inv.f_end.t - inv.f_start.t
                /\ NearestMs(v, inv.end.t - inv.start.t)
                /\ 2 * TicksPerMs * v + TicksPerMs >= 2 * (inv.f_end.t - inv.f_start.t)

\* A coroutine whose awaited time is a millisecond or more has returned
\* through the wrapper.
C5_Witness ==
    \E i \in Invocations :
        /\ prof.inv[i].pc = "returned"
        /\ prof.inv[i].f.is_async
        /\ prof.inv[i].f_end.t - prof.inv[i].f_start.t >= TicksPerMs
        /\ prof.inv[i].calls[1].value.n >= 1

---------------------------------------------------------------------------
(* Properties of get_response_text of example-0, checked under SpecReq *)

ExceptionCalls ==
    {k \in 1..Len(req.calls) : req.calls[k].name = PyStr(requests_request_exception)}

\* C7: when the HTTP call fails with a RequestException, exactly one
\* requests_request_exception metric tagged with the domain and the
\* exception's class name is emitted, and the caller observes the original
\* error, not a substitute result.
C7_ErrorResurfacedUnchanged ==
    (req.pc = "done" /\ req.failed.kind = "raised") =>
        /\ Cardinality(ExceptionCalls) = 1
        /\ \A k \in ExceptionCalls :
             req.calls[k].tags =
                 PyDict(<<<<PyStr(domain), req.host>>,
                          <<PyStr(exception_class), PyStr(req.failed.error.cls)>>>>)
        /\ req.result = req.failed

---------------------------------------------------------------------------
(* Properties of the encoder, checked under SpecEnc *)

HasReserved(s) == \E i \in 1..Len(s) : s[i] \in Reserved

\* Every reserved character replaced by '-', all at once.
Escaped(s) == [i \in 1..Len(s) |-> IF s[i] \in Reserved THEN "-" ELSE s[i]]

\* A component as the line should show it: a string escaped, a number in decimal.
Shown(v) == IF v.t = "str" THEN Escaped(v.s) ELSE Format(v)

ValueEq == <<" ", "v", "a", "l", "u", "e", "=">>

\* ',' key '=' value for every item of the mapping, in insertion order
RECURSIVE TagSegment(_)
TagSegment(d) ==
    IF d = <<>> THEN <<>>
    ELSE <<",">> \o Shown(d[1][1]) \o <<"=">> \o Shown(d[1][2]) \o TagSegment(Tail(d))

Encoded == enc_out # <<>>

\* C8: the encoded line holds none of ':', '_', '|', whatever the name, the
\* tag keys, the tag values and the value were.
C8_NoReservedInLine ==
    Encoded => \A i \in 1..Len(enc_out) : enc_out[i] \notin Reserved

C8_Witness ==
    /\ Encoded
    /\ HasReserved(enc_in.name.s)
    /\ enc_in.value.t = "str" /\ HasReserved(enc_in.value.s)
    /\ Truthy(enc_in.tags)
    /\ \E i \in 1..Len(enc_in.tags.items) :
         /\ HasReserved(enc_in.tags.items[i][1].s)
         /\ enc_in.tags.items[i][2].t = "str"
         /\ HasReserved(enc_in.tags.items[i][2].s)

\* C9: for a non-empty tag mapping the line is the escaped name, then
\* ',' key '=' value for each tag of the mapping in insertion order, then
\* ' value=' and the value, then a newline.
C9_LineHasEveryTagInOrder ==
    (Encoded /\ Truthy(enc_in.tags)) =>
        enc_out = Shown(enc_in.name) \o TagSegment(enc_in.tags.items)
                    \o ValueEq \o Shown(enc_in.value) \o <<"\n">>

\* C10: with tags empty or None the line is the escaped name, ' value=', the
\* value and a newline, with no tag segment and no comma; the call
\* ("cpu_load", 42, {}) gives "cpu-load value=42\n".
C10_NoTagSegment ==
    (Encoded /\ ~Truthy(enc_in.tags)) =>
        /\ enc_out = Shown(enc_in.name) \o ValueEq \o Shown(enc_in.value) \o <<"\n">>
        /\ \A i \in 1..Len(enc_out) : enc_out[i] # ","
        /\ (enc_in.name = PyStr(cpu_load) /\ enc_in.value = PyInt(42)) =>
             enc_out = <<"c", "p", "u", "-", "l", "o", "a", "d", " ",
                         "v", "a", "l", "u", "e", "=", "4", "2", "\n">>

C10_Witness ==
    /\ Encoded
    /\ enc_in.tags = PyNone
    /\ enc_in.name = PyStr(cpu_load)
    /\ enc_in.value = PyInt(42)

---------------------------------------------------------------------------
(* The encoder on inputs free of the reserved characters, and the line read
   back as the collector reads it *)

\* Characters free of ':', '_', '|': a plain one and the separators of the
\* line format.
PlainChars == {"a", ",", " ", "="}

PlainKeys == {PyStr(<<"a">>), PyStr(<<"b">>), PyStr(<<"a", "=">>)}
PlainVals == {PyStr(<<"a">>), PyStr(<<"b", ",">>), PyStr(<<" ">>), PyInt(3)}
PlainValues == {PyInt(-12), PyInt(7)} \cup {PyStr(s) : s \in SeqsUpTo(PlainChars, 1)}

RECURSIVE PlainDicts(_)
PlainDicts(n) ==
    IF n = 0 THEN {<<>>}
    ELSE LET smaller == PlainDicts(n - 1)
         IN  smaller \cup
             {Append(d, <<k, v>>) : d \in {x \in smaller : Len(x) = n - 1},
                                    k \in PlainKeys, v \in PlainVals}

PlainTagMaps ==
    {PyNone} \cup {PyDict(d) : d \in {x \in PlainDicts(MaxTags) :
                                        Cardinality(DictKeys(x)) = Len(x)}}

PlainInputs ==
    [name : {PyStr(s) : s \in SeqsUpTo(PlainChars, MaxLen)},
     value : PlainValues, tags : PlainTagMaps]

InitPlain ==
    /\ now = 0 /\ unclosed = 0
    /\ HooksIdle /\ ProfIdle /\ ReqIdle
    /\ enc_in \in PlainInputs
    /\ enc_out = <<>>

NextPlain == FormatCall

SpecPlain == InitPlain /\ [][NextPlain]_vars

\* Position of the first character of s that is in S (Len(s) + 1 if none).
FirstIn(s, S) ==
    LET hits == {i \in 1..Len(s) : s[i] \in S}
    IN  IF hits = {} THEN Len(s) + 1
        ELSE CHOOSE i \in hits : \A j \in hits : i <= j

\* s split at every occurrence of the character sep
RECURSIVE SplitAt(_, _)
SplitAt(s, sep) ==
    LET k == FirstIn(s, {sep})
    IN  IF k > Len(s) THEN <<s>>
        ELSE <<SubSeq(s, 1, k - 1)>> \o SplitAt(SubSeq(s, k + 1, Len(s)), sep)

\* key=value read as <<key, value>>
ParsePair(s) ==
    LET k == FirstIn(s, {"="})
    IN  <<SubSeq(s, 1, k - 1), SubSeq(s, k + 1, Len(s))>>

\* The line as the collector reads it: the name up to the first ',' or
\* space; after a ',' the tags up to the next space, as comma-separated
\* key=value pairs; the value after ' value=' up to the newline.
ParseLine(line) ==
    LET n == FirstIn(line, {",", " "})
        rest == SubSeq(line, n, Len(line))
        sp == FirstIn(rest, {" "})
        tagtext == IF rest # <<>> /\ rest[1] = "," THEN SubSeq(rest, 2, sp - 1) ELSE <<>>
        pairs == IF rest # <<>> /\ rest[1] = ","
                 THEN [i \in 1..Len(SplitAt(tagtext, ",")) |->
                          ParsePair(SplitAt(tagtext, ",")[i])]
                 ELSE <<>>
        tail == SubSeq(rest, sp + 1, Len(rest))
        eq == FirstIn(tail, {"="})
    IN  [name |-> SubSeq(line, 1, n - 1),
         tags |-> pairs,
         head |-> SubSeq(tail, 1, eq),
         value |-> SubSeq(tail, eq + 1, Len(tail) - 1)]

\* The metric as text: the name, the tags in insertion order, the value
\* (a number by its decimal digits; no tags for None).
AsText(in) ==
    [name |-> Format(in.name),
     tags |-> IF in.tags.t = "dict"
              THEN [i \in 1..Len(in.tags.items) |->
                       <<Format(in.tags.items[i][1]), Format(in.tags.items[i][2])>>]
              ELSE <<>>,
     head |-> <<"v", "a", "l", "u", "e", "=">>,
     value |-> Format(in.value)]

Separators == {",", "=", " ", "\n"}

HasSeparator(v) == v.t = "str" /\ \E i \in 1..Len(v.s) : v.s[i] \in Separators

SeparatorFree(in) ==
    /\ ~HasSeparator(in.name)
    /\ ~HasSeparator(in.value)
    /\ in.tags.t = "dict" =>
         \A i \in 1..Len(in.tags.items) :
             ~HasSeparator(in.tags.items[i][1]) /\ ~HasSeparator(in.tags.items[i][2])

\* C11 as stated: for every input whose strings hold none of ':', '_', '|',
\* the encoded line read back by the collector gives the original name, tag
\* mapping and value.
C11_RoundTrip ==
    Encoded => ParseLine(enc_out) = AsText(enc_in)

\* C11 amended: for every input whose strings hold none of ':', '_', '|' and
\* none of the separators ',', '=', space and newline, the encoded line read
\* back by the collector gives the original name, tags and value as text.
C11_RoundTripWithoutSeparators ==
    (Encoded /\ SeparatorFree(enc_in)) => ParseLine(enc_out) = AsText(enc_in)

C11_Witness ==
    /\ Encoded
    /\ SeparatorFree(enc_in)
    /\ enc_in.name.s # <<>>
    /\ enc_in.tags.t = "dict" /\ Len(enc_in.tags.items) = MaxTags
    /\ enc_in.value.t = "str" /\ enc_in.value.s # <<>>

---------------------------------------------------------------------------
(* Properties of the profile decorator, checked under SpecProf *)

\* C12: a unit wrapped with an explicit metric_name emits its duration under
\* that name, and a unit wrapped without one emits it under its own function
\* name followed by '_exec_time', also when one decorator is applied to
\* several functions.
C12_EmitsUnderOwnName ==
    \A i \in Invocations :
        prof.inv[i].pc = "returned" =>
            /\ Len(prof.inv[i].calls) = 1
            /\ prof.inv[i].calls[1].name =
                   IF prof.cell = PyStr(my_exec_time)
                   THEN PyStr(my_exec_time)
                   ELSE PyStr(prof.inv[i].f.name \o exec_time_suffix)

---------------------------------------------------------------------------
(* Further properties of the observers, checked under Spec *)

\* C13: after a phase-end observer has run on a context, that phase's start
\* timestamp is no longer held by the context, so a second phase-end for the
\* same phase without a phase-start in between raises instead of emitting a
\* duration from the old start.
C13_StartConsumedByEnd ==
    (last.op \in EndOps /\ last.raised = "none") =>
        ~ctx[last.c][AttrOf(last.op)].has

\* C14: every send_stats call that opens a socket closes it before it
\* returns, whether the send succeeded or failed, so no socket is left
\* unclosed after any sequence of emissions.
C14_EverySocketClosed ==
    /\ unclosed = 0
    /\ last.op # "none" =>
         \A k \in 1..Len(last.calls) :
             last.calls[k].sendto => last.calls[k].leaked = 0

EventOps == {"on_request_redirect", "on_request_exception",
             "on_response_chunk_received", "on_connection_reuseconn",
             "on_dns_cache_hit", "on_dns_cache_miss"}

\* A single-shot observer has just run: it raised nothing and made one
\* send_stats call, with value 1 or, for a chunk, the chunk's length.
EventEmitsOnce ==
    last.op \in EventOps =>
        /\ last.raised = "none"
        /\ Len(last.calls) = 1
        /\ last.calls[1].value.t = "int"
        /\ IF last.op = "on_response_chunk_received"
           THEN last.calls[1].value.n \in ChunkLens
           ELSE last.calls[1].value.n = 1

\* C15: each single-shot observer (request_redirect, request_exception,
\* connection_reuseconn, dns_cache_hit, dns_cache_miss,
\* response_chunk_received) emits exactly one metric per invocation (value 1,
\* or the chunk's byte length), succeeds on a context with no phase started,
\* and leaves every start timestamp of every context unchanged.
C15_EventEmitsOnceAndKeepsStarts ==
    /\ []EventEmitsOnce
    /\ [][(last = NoCall /\ last'.op \in EventOps) => ctx' = ctx]_vars

C15_Witness ==
    /\ last.op = "on_response_chunk_received"
    /\ ctx[last.c] = FreshCtx
    /\ started[last.c] = FreshCtx
    /\ last.calls[1].value = PyInt(5)
    /\ \E c \in Contexts : \E a \in Attrs : ctx[c][a].has

StartOps == {"on_request_start", "on_connection_queued_start",
             "on_connection_create_start", "on_dns_resolvehost_start"}

\* The attribute each phase-start observer writes.
AttrOfStart(op) ==
    CASE op = "on_request_start" -> "request_start"
      [] op = "on_connection_queued_start" -> "connection_queued_start"
      [] op = "on_connection_create_start" -> "connection_create_start"
      [] op = "on_dns_resolvehost_start" -> "dns_resolvehost_start"

\* A phase-end observer that emitted used the start of its own phase.
EndUsesOwnStart ==
    (last.op \in EndOps /\ last.calls # <<>>) =>
        /\ ctx[last.c][AttrOf(last.op)].has
        /\ last.calls[1].value =
               PyInt(PyRound(last.at - ctx[last.c][AttrOf(last.op)].t, TicksPerMs))

\* C16: a phase-start observer emits no metric and writes only the key of its
\* own phase in its own context; the start timestamps of all other phases are
\* unchanged, so with phases nested in one context each phase-end computes
\* its duration from the start of its own phase.
C16_StartWritesOnlyOwnKey ==
    /\ [][(last = NoCall /\ last'.op \in StartOps) =>
            /\ last'.calls = <<>>
            /\ last'.raised = "none"
            /\ ctx'[last'.c][AttrOfStart(last'.op)] = At(now)
            /\ \A c \in Contexts : \A a \in Attrs :
                   <<c, a>> # <<last'.c, AttrOfStart(last'.op)>> =>
                       ctx'[c][a] = ctx[c][a]]_vars
    /\ [](EndUsesOwnStart /\ \A c \in Contexts : ctx[c] = started[c])

\* A nested phase ends while the request phase, started earlier, is open.
C16_Witness ==
    /\ last.op \in EndOps \ {"on_request_end"}
    /\ last.calls # <<>>
    /\ ctx[last.c]["request_start"].has
    /\ ctx[last.c]["request_start"].t < ctx[last.c][AttrOf(last.op)].t
    /\ last.calls[1].value #
           PyInt(PyRound(last.at - ctx[last.c]["request_start"].t, TicksPerMs))

\* The 14 lifecycle phases.
Phases == StartOps \cup EndOps \cup EventOps

\* The phase of a phase-end or single-shot observer, as text.
PhaseText(op) ==
    CASE op = "on_request_end" -> <<"r", "e", "q", "u", "e", "s", "t">>
      [] op = "on_connection_queued_end" -> <<"c", "o", "n", "n", "e", "c", "t", "i", "o", "n", "_", "q", "u", "e", "u", "e", "d">>
      [] op = "on_connection_create_end" -> <<"c", "o", "n", "n", "e", "c", "t", "i", "o", "n", "_", "c", "r", "e", "a", "t", "e">>
      [] op = "on_dns_resolvehost_end" -> <<"d", "n", "s", "_", "r", "e", "s", "o", "l", "v", "e", "h", "o", "s", "t">>
      [] op = "on_request_redirect" -> <<"r", "e", "q", "u", "e", "s", "t", "_", "r", "e", "d", "i", "r", "e", "c", "t">>
      [] op = "on_request_exception" -> <<"r", "e", "q", "u", "e", "s", "t", "_", "e", "x", "c", "e", "p", "t", "i", "o", "n">>
      [] op = "on_response_chunk_received" -> <<"r", "e", "s", "p", "o", "n", "s", "e", "_", "c", "h", "u", "n", "k", "_", "r", "e", "c", "e", "i", "v", "e", "d">>
      [] op = "on_connection_reuseconn" -> <<"c", "o", "n", "n", "e", "c", "t", "i", "o", "n", "_", "r", "e", "u", "s", "e", "c", "o", "n", "n">>
      [] op = "on_dns_cache_hit" -> <<"d", "n", "s", "_", "c", "a", "c", "h", "e", "_", "h", "i", "t">>
      [] op = "on_dns_cache_miss" -> <<"d", "n", "s", "_", "c", "a", "c", "h", "e", "_", "m", "i", "s", "s">>

\* The name a phase's metric is to have: aiohttp_<phase>_time for a phase
\* end (aiohttp_request_exec_time for the request), aiohttp_<phase> for a
\* single-shot phase.
NameOfPhase(op) ==
    LET transport == <<"a", "i", "o", "h", "t", "t", "p", "_">>
    IN  IF op = "on_request_end"
        THEN transport \o <<"r", "e", "q", "u", "e", "s", "t", "_", "e", "x", "e", "c", "_", "t", "i", "m", "e">>
        ELSE IF op \in EndOps
        THEN transport \o PhaseText(op) \o <<"_", "t", "i", "m", "e">>
        ELSE transport \o PhaseText(op)

\* C17: the Profiler registers exactly one observer for each of the 14
\* phases and none for any other signal, and whatever is dispatched every
\* emitted metric has the name of its phase: aiohttp_<phase>_time for a phase
\* end (aiohttp_request_exec_time for request_end), aiohttp_<phase> for a
\* single-shot phase; these are ten names.
C17_OneObserverPerPhaseAndItsName ==
    /\ \A sig \in Phases : Profiler_init[sig] = <<sig>>
    /\ \A sig \in Signals \ Phases : Profiler_init[sig] = <<>>
    /\ Cardinality(Phases) = 14
    /\ Cardinality({NameOfPhase(op) : op \in EndOps \cup EventOps}) = 10
    /\ last.op # "none" =>
         /\ last.op \in Phases
         /\ last.op \in StartOps => last.calls = <<>>
         /\ \A k \in 1..Len(last.calls) :
                last.calls[k].name = PyStr(NameOfPhase(last.op))

C17_Witness ==
    /\ last.op = "on_dns_cache_miss"
    /\ Len(last.calls) = 1
    /\ last.calls[1].name = PyStr(aiohttp_dns_cache_miss)

---------------------------------------------------------------------------
(* A further property of the encoder, checked under SpecEnc *)

\* Number of key=value pairs in the line: its '=' signs but the one of
\* ' value=' (no name, key or value of the inputs holds an '=').
PairsInLine(line) == Cardinality({i \in 1..Len(line) : line[i] = "="}) - 1

\* C18: every tag of the input mapping appears in the line: for a mapping
\* with n distinct keys the tag segment holds exactly n key=value pairs, also
\* when two keys differ only in reserved characters and escape to the same
\* text.
C18_EveryTagInLine ==
    Encoded =>
        PairsInLine(enc_out) =
            IF enc_in.tags.t = "dict" THEN Cardinality(DictKeys(enc_in.tags.items))
            ELSE 0

---------------------------------------------------------------------------
(* A further property of the profile decorator, checked under SpecProf *)

\* Invocation i of a coroutine is over while another invocation of the same
\* coroutine is still in flight.
OverWhileOtherInFlight(i) ==
    /\ prof.inv[i].pc \in {"returned", "raised"}
    /\ prof.inv[i].f.is_async
    /\ \E j \in Invocations \ {i} :
           /\ prof.inv[j].pc \in {"entered", "running", "finished"}
           /\ prof.inv[j].f = prof.inv[i].f

\* C19: when several invocations of one wrapped coroutine are in flight
\* together, however they interleave, each invocation emits exactly one
\* duration metric, computed from the start time of that invocation.
C19_EachInvocationEmitsFromOwnStart ==
    \A i \in Invocations :
        OverWhileOtherInFlight(i) =>
            /\ Len(prof.inv[i].calls) = 1
            /\ prof.inv[i].calls[1].value =
                   PyInt(PyRound(prof.inv[i].end.t - prof.inv[i].start.t, TicksPerMs))
            /\ prof.inv[i].start.t <= prof.inv[i].f_start.t

====
